---- MODULE Spec2Model ----
(***************************************************************************)
(* Model of package junos (junos.go): a Session wrapping one NETCONF       *)
(* connection, and the operations Lock, Unlock, GetRollbackConfig,         *)
(* RollbackDiff, GetRescueConfig, Command and Close.                       *)
(*                                                                         *)
(* The transport (netconf.Session.Exec) is external: every call draws its  *)
(* outcome (a transport error, or a reply envelope) from a finite set.     *)
(* A reply payload is a sequence of XML tokens; xml.Unmarshal is modelled  *)
(* as a parser over that sequence.                                         *)
(* Close only marks the connection closed: the operations do not look at  *)
(* that mark, and what Exec answers on a closed connection is the          *)
(* transport's choice, so it stays any outcome of the set.                 *)
(***************************************************************************)
EXTENDS Integers, Sequences, FiniteSets, TLC

VARIABLES alive, Conn, calls, execCount, last, hist

vars == <<alive, Conn, calls, execCount, last, hist>>

\* Number of operation calls explored on one session.
MaxCalls == 2

-----------------------------------------------------------------------------
(* Go error values *)

Nil == [isNil |-> TRUE, msg |-> ""]

NewError(m) == [isNil |-> FALSE, msg |-> m]

-----------------------------------------------------------------------------
(* XML payloads as token sequences *)

Open(n) == [k |-> "open", v |-> n]

End(n) == [k |-> "close", v |-> n]

Text(t) == [k |-> "text", v |-> t]

ConfigPath == <<"configuration-information", "configuration-output">>

\* <root><configuration-information><configuration-output>t</...></...></root>
ConfigDoc(root, t) ==
    <<Open(root), Open(ConfigPath[1]), Open(ConfigPath[2])>>
    \o (IF t = "" THEN <<>> ELSE <<Text(t)>>)
    \o <<End(ConfigPath[2]), End(ConfigPath[1]), End(root)>>

Payloads ==
    { <<>>,                                                   \* empty reply data
      <<Open("output"), End("rollback-information")>>,        \* mismatched end tag
      <<Open("rescue-information"), End("rescue-information")>>,
      <<Open("output"), Text("Junos: 12.1"), End("output")>>,
      <<Open("rescue-information"), Open("configuration-information"),
        Text("stray"), End("configuration-information"), End("rescue-information")>>,
      ConfigDoc("rollback-information", ""),
      ConfigDoc("rollback-information", "no changes"),
      ConfigDoc("rescue-information", ""),
      ConfigDoc("rescue-information", "system { }") }

Render(tok) ==
    CASE tok.k = "open"  -> "<" \o tok.v \o ">"
      [] tok.k = "close" -> "</" \o tok.v \o ">"
      [] tok.k = "text"  -> tok.v

\* Index of the first token that is not character data, 0 if there is none.
RECURSIVE FirstElement(_, _)
FirstElement(d, i) ==
    IF i > Len(d) THEN 0
    ELSE IF d[i].k = "text" THEN FirstElement(d, i + 1)
    ELSE i

\* Index of the end tag closing the outermost element of stack, 0 on a
\* syntax error (unexpected EOF, mismatched end tag).
RECURSIVE MatchEnd(_, _, _)
MatchEnd(d, i, stack) ==
    IF i > Len(d) THEN 0
    ELSE CASE d[i].k = "text"  -> MatchEnd(d, i + 1, stack)
           [] d[i].k = "open"  -> MatchEnd(d, i + 1, Append(stack, d[i].v))
           [] d[i].k = "close" ->
                IF d[i].v # stack[Len(stack)] THEN 0
                ELSE IF Len(stack) = 1 THEN i
                ELSE MatchEnd(d, i + 1, SubSeq(stack, 1, Len(stack) - 1))

\* Character data of the element reached by path below the root, scanning
\* tokens i..e-1; a later matching element overwrites an earlier one.
RECURSIVE PathText(_, _, _, _, _, _)
PathText(d, i, e, stack, path, acc) ==
    IF i >= e THEN acc
    ELSE CASE d[i].k = "text" ->
                PathText(d, i + 1, e, stack, path,
                         IF stack = path THEN acc \o d[i].v ELSE acc)
           [] d[i].k = "open" ->
                PathText(d, i + 1, e, Append(stack, d[i].v), path,
                         IF Append(stack, d[i].v) = path THEN "" ELSE acc)
           [] d[i].k = "close" ->
                PathText(d, i + 1, e, SubSeq(stack, 1, Len(stack) - 1), path, acc)

\* Raw XML of tokens i..e-1.
RECURSIVE InnerXML(_, _, _)
InnerXML(d, i, e) ==
    IF i >= e THEN "" ELSE Render(d[i]) \o InnerXML(d, i + 1, e)

\* xml.Unmarshal into rollbackXML / rescueXML: XMLName must match the root
\* element; Config is the text at configuration-information>configuration-output.
UnmarshalConfig(d, xmlName) ==
    LET s == FirstElement(d, 1)
        e == IF s = 0 \/ d[s].k # "open" THEN 0 ELSE MatchEnd(d, s + 1, <<d[s].v>>)
    IN  IF s = 0 \/ e = 0 \/ d[s].v # xmlName
        THEN [err |-> TRUE, Config |-> ""]
        ELSE [err |-> FALSE, Config |-> PathText(d, s + 1, e, <<>>, ConfigPath, "")]

rollbackXML(d) == UnmarshalConfig(d, "rollback-information")

rescueXML(d) == UnmarshalConfig(d, "rescue-information")

\* xml.Unmarshal into commandXML: any root element; Config is its inner XML.
commandXML(d) ==
    LET s == FirstElement(d, 1)
        e == IF s = 0 \/ d[s].k # "open" THEN 0 ELSE MatchEnd(d, s + 1, <<d[s].v>>)
    IN  IF s = 0 \/ e = 0
        THEN [err |-> TRUE, Config |-> ""]
        ELSE [err |-> FALSE, Config |-> InnerXML(d, s + 1, e)]

-----------------------------------------------------------------------------
(* Transport outcomes of one Exec call *)

ErrorLists ==
    { <<>>,
      <<[Message |-> "B"]>>,
      <<[Message |-> "A"], [Message |-> "B"]>> }

Replies == [Ok : BOOLEAN, Errors : ErrorLists, Data : Payloads]

NoReply == [Ok |-> FALSE, Errors |-> <<>>, Data |-> <<>>]

\* err = TRUE: Exec returned a transport error (the reply is not used).
ExecOutcomes ==
    {[err |-> TRUE, reply |-> NoReply]} \cup {[err |-> FALSE, reply |-> r] : r \in Replies}

-----------------------------------------------------------------------------
(* RPC templates *)

rpcCommand ==
    [ k \in {"lock", "unlock", "get-rollback-information",
             "get-rollback-information-compare", "get-rescue-information",
             "command", "command-xml"} |->
      CASE k = "lock" -> <<"<rpc><lock-configuration/></rpc>">>
        [] k = "unlock" -> <<"<rpc><unlock-configuration/></rpc>">>
        [] k = "get-rollback-information" ->
             <<"<rpc><get-rollback-information><rollback>",
               "</rollback><format>text</format></get-rollback-information></rpc>">>
        [] k = "get-rollback-information-compare" ->
             <<"<rpc><get-rollback-information><rollback>0</rollback><compare>",
               "</compare><format>text</format></get-rollback-information></rpc>">>
        [] k = "get-rescue-information" ->
             <<"<rpc><get-rescue-information><format>text</format></get-rescue-information></rpc>">>
        [] k = "command" -> <<"<rpc><command format=text>", "</command></rpc>">>
        [] k = "command-xml" -> <<"<rpc><command format=xml>", "</command></rpc>">> ]

\* fmt.Sprintf of a template with one slot, the argument already rendered.
Sprintf(template, arg) == template[1] \o arg \o template[2]

-----------------------------------------------------------------------------
(* Results of one operation call *)

\* status "returned": the call returned (str, err) to the caller;
\* status "fatal": log.Fatal ended the process inside the call.
\* steps lists, in order, what the call did: "exec" (Conn.Exec), "inspect"
\* (reply.Ok / reply.Errors read), "decode" (xml.Unmarshal).
Return(key, command, steps, str, err) ==
    [status |-> "returned", key |-> key, sent |-> command, steps |-> steps,
     str |-> str, err |-> err]

Fatal(key, command, steps) ==
    [status |-> "fatal", key |-> key, sent |-> command, steps |-> steps,
     str |-> "", err |-> Nil]

-----------------------------------------------------------------------------
(* Operations of Session, as functions of their arguments and of the        *)
(* outcome tr of the Exec call they make                                    *)

\* Variant of Lock: the error is built from the last descriptor.
Lock_LastError(tr) ==
    LET key == "lock"
        command == rpcCommand[key][1]
    IN  IF tr.err THEN Fatal(key, command, <<"exec">>)
        ELSE IF tr.reply.Ok = FALSE /\ Len(tr.reply.Errors) > 0
        THEN Return(key, command, <<"exec", "inspect">>, "",
                    NewError(tr.reply.Errors[Len(tr.reply.Errors)].Message))
        ELSE Return(key, command, <<"exec", "inspect">>, "", Nil)

\* Lock: Exec, log.Fatal on a transport error, first error of an
\* unsuccessful reply, nil otherwise.
Lock(tr) ==
    LET key == "lock"
        command == rpcCommand[key][1]
    IN  IF tr.err THEN Fatal(key, command, <<"exec">>)
        ELSE IF tr.reply.Ok = FALSE /\ Len(tr.reply.Errors) > 0
        THEN Return(key, command, <<"exec", "inspect">>, "",
                    NewError(tr.reply.Errors[1].Message))
        ELSE Return(key, command, <<"exec", "inspect">>, "", Nil)

\* Variant of Unlock: the error list is read whatever reply.Ok says.
Unlock_IgnoreOk(tr) ==
    LET key == "unlock"
        command == rpcCommand[key][1]
    IN  IF tr.err THEN Fatal(key, command, <<"exec">>)
        ELSE IF Len(tr.reply.Errors) > 0
        THEN Return(key, command, <<"exec", "inspect">>, "",
                    NewError(tr.reply.Errors[1].Message))
        ELSE Return(key, command, <<"exec", "inspect">>, "", Nil)

\* Variant of Unlock: a transport error is returned to the caller.
Unlock_ReturnTransportError(tr) ==
    LET key == "unlock"
        command == rpcCommand[key][1]
    IN  IF tr.err THEN Return(key, command, <<"exec">>, "", NewError("transport"))
        ELSE IF tr.reply.Ok = FALSE /\ Len(tr.reply.Errors) > 0
        THEN Return(key, command, <<"exec", "inspect">>, "",
                    NewError(tr.reply.Errors[1].Message))
        ELSE Return(key, command, <<"exec", "inspect">>, "", Nil)

Unlock(tr) ==
    LET key == "unlock"
        command == rpcCommand[key][1]
    IN  IF tr.err THEN Fatal(key, command, <<"exec">>)
        ELSE IF tr.reply.Ok = FALSE /\ Len(tr.reply.Errors) > 0
        THEN Return(key, command, <<"exec", "inspect">>, "",
                    NewError(tr.reply.Errors[1].Message))
        ELSE Return(key, command, <<"exec", "inspect">>, "", Nil)

\* Variant of GetRollbackConfig: the device error is dropped.
GetRollbackConfig_SwallowError(number, tr) ==
    LET key == "get-rollback-information"
        command == Sprintf(rpcCommand[key], ToString(number))
        rb == rollbackXML(tr.reply.Data)
    IN  IF tr.err THEN Fatal(key, command, <<"exec">>)
        ELSE IF tr.reply.Ok = FALSE /\ Len(tr.reply.Errors) > 0
        THEN Return(key, command, <<"exec", "inspect">>, "", Nil)
        ELSE IF rb.err THEN Fatal(key, command, <<"exec", "inspect", "decode">>)
        ELSE Return(key, command, <<"exec", "inspect", "decode">>, rb.Config, Nil)

GetRollbackConfig(number, tr) ==
    LET key == "get-rollback-information"
        command == Sprintf(rpcCommand[key], ToString(number))
        rb == rollbackXML(tr.reply.Data)
    IN  IF tr.err THEN Fatal(key, command, <<"exec">>)
        ELSE IF tr.reply.Ok = FALSE /\ Len(tr.reply.Errors) > 0
        THEN Return(key, command, <<"exec", "inspect">>, "",
                    NewError(tr.reply.Errors[1].Message))
        ELSE IF rb.err THEN Fatal(key, command, <<"exec", "inspect", "decode">>)
        ELSE Return(key, command, <<"exec", "inspect", "decode">>, rb.Config, Nil)

\* Variant of RollbackDiff: an unsuccessful reply is retried once.
RollbackDiff_Retry(compare, tr) ==
    LET key == "get-rollback-information-compare"
        command == Sprintf(rpcCommand[key], ToString(compare))
        rb == rollbackXML(tr.reply.Data)
    IN  IF tr.err THEN Fatal(key, command, <<"exec">>)
        ELSE IF tr.reply.Ok = FALSE /\ Len(tr.reply.Errors) > 0
        THEN Return(key, command, <<"exec", "inspect", "exec", "inspect">>, "",
                    NewError(tr.reply.Errors[1].Message))
        ELSE IF rb.err THEN Fatal(key, command, <<"exec", "inspect", "decode">>)
        ELSE Return(key, command, <<"exec", "inspect", "decode">>, rb.Config, Nil)

RollbackDiff(compare, tr) ==
    LET key == "get-rollback-information-compare"
        command == Sprintf(rpcCommand[key], ToString(compare))
        rb == rollbackXML(tr.reply.Data)
    IN  IF tr.err THEN Fatal(key, command, <<"exec">>)
        ELSE IF tr.reply.Ok = FALSE /\ Len(tr.reply.Errors) > 0
        THEN Return(key, command, <<"exec", "inspect">>, "",
                    NewError(tr.reply.Errors[1].Message))
        ELSE IF rb.err THEN Fatal(key, command, <<"exec", "inspect", "decode">>)
        ELSE Return(key, command, <<"exec", "inspect", "decode">>, rb.Config, Nil)

\* Variant of GetRescueConfig: no fallback string for an empty text.
GetRescueConfig_NoFallback(tr) ==
    LET key == "get-rescue-information"
        command == rpcCommand[key][1]
        rescue == rescueXML(tr.reply.Data)
    IN  IF tr.err THEN Fatal(key, command, <<"exec">>)
        ELSE IF tr.reply.Ok = FALSE /\ Len(tr.reply.Errors) > 0
        THEN Return(key, command, <<"exec", "inspect">>, "",
                    NewError(tr.reply.Errors[1].Message))
        ELSE IF rescue.err THEN Fatal(key, command, <<"exec", "inspect", "decode">>)
        ELSE Return(key, command, <<"exec", "inspect", "decode">>, rescue.Config, Nil)

\* Variant of GetRescueConfig: ok=false with no descriptor is an error.
GetRescueConfig_ErrorOnNotOk(tr) ==
    LET key == "get-rescue-information"
        command == rpcCommand[key][1]
        rescue == rescueXML(tr.reply.Data)
    IN  IF tr.err THEN Fatal(key, command, <<"exec">>)
        ELSE IF tr.reply.Ok = FALSE
        THEN Return(key, command, <<"exec", "inspect">>, "",
                    NewError(IF Len(tr.reply.Errors) > 0
                             THEN tr.reply.Errors[1].Message ELSE "unknown error"))
        ELSE IF rescue.err THEN Fatal(key, command, <<"exec", "inspect", "decode">>)
        ELSE IF rescue.Config = ""
        THEN Return(key, command, <<"exec", "inspect", "decode">>,
                    "No rescue configuration set.", Nil)
        ELSE Return(key, command, <<"exec", "inspect", "decode">>, rescue.Config, Nil)

GetRescueConfig(tr) ==
    LET key == "get-rescue-information"
        command == rpcCommand[key][1]
        rescue == rescueXML(tr.reply.Data)
    IN  IF tr.err THEN Fatal(key, command, <<"exec">>)
        ELSE IF tr.reply.Ok = FALSE /\ Len(tr.reply.Errors) > 0
        THEN Return(key, command, <<"exec", "inspect">>, "",
                    NewError(tr.reply.Errors[1].Message))
        ELSE IF rescue.err THEN Fatal(key, command, <<"exec", "inspect", "decode">>)
        ELSE IF rescue.Config = ""
        THEN Return(key, command, <<"exec", "inspect", "decode">>,
                    "No rescue configuration set.", Nil)
        ELSE Return(key, command, <<"exec", "inspect", "decode">>, rescue.Config, Nil)

\* Variant of Command: "text" is the special-cased format.
Command_TextSpecial(cmd, format, tr) ==
    LET key == IF format = "text" THEN "command" ELSE "command-xml"
        command == Sprintf(rpcCommand[key], cmd)
        c == commandXML(tr.reply.Data)
    IN  IF tr.err THEN Fatal(key, command, <<"exec">>)
        ELSE IF tr.reply.Ok = FALSE /\ Len(tr.reply.Errors) > 0
        THEN Return(key, command, <<"exec", "inspect">>, "",
                    NewError(tr.reply.Errors[1].Message))
        ELSE IF c.err THEN Fatal(key, command, <<"exec", "inspect", "decode">>)
        ELSE IF c.Config = ""
        THEN Return(key, command, <<"exec", "inspect", "decode">>,
                    "No output available.", Nil)
        ELSE Return(key, command, <<"exec", "inspect", "decode">>, c.Config, Nil)

\* Variant of Command: no fallback string for an empty inner XML.
Command_NoFallback(cmd, format, tr) ==
    LET key == IF format = "xml" THEN "command-xml" ELSE "command"
        command == Sprintf(rpcCommand[key], cmd)
        c == commandXML(tr.reply.Data)
    IN  IF tr.err THEN Fatal(key, command, <<"exec">>)
        ELSE IF tr.reply.Ok = FALSE /\ Len(tr.reply.Errors) > 0
        THEN Return(key, command, <<"exec", "inspect">>, "",
                    NewError(tr.reply.Errors[1].Message))
        ELSE IF c.err THEN Fatal(key, command, <<"exec", "inspect", "decode">>)
        ELSE Return(key, command, <<"exec", "inspect", "decode">>, c.Config, Nil)

Command(cmd, format, tr) ==
    LET key == IF format = "xml" THEN "command-xml" ELSE "command"
        command == Sprintf(rpcCommand[key], cmd)
        c == commandXML(tr.reply.Data)
    IN  IF tr.err THEN Fatal(key, command, <<"exec">>)
        ELSE IF tr.reply.Ok = FALSE /\ Len(tr.reply.Errors) > 0
        THEN Return(key, command, <<"exec", "inspect">>, "",
                    NewError(tr.reply.Errors[1].Message))
        ELSE IF c.err THEN Fatal(key, command, <<"exec", "inspect", "decode">>)
        ELSE IF c.Config = ""
        THEN Return(key, command, <<"exec", "inspect", "decode">>,
                    "No output available.", Nil)
        ELSE Return(key, command, <<"exec", "inspect", "decode">>, c.Config, Nil)

-----------------------------------------------------------------------------
(* State machine *)

Numbers == {0, 49}

Cmds == {"show version"}

Formats == {"xml", "text", "", "XML"}

NoArgs == [number |-> 0, cmd |-> "", format |-> ""]

NoConn == [handle |-> 0, open |-> FALSE]

NoCall ==
    [op |-> "none", args |-> NoArgs, tr |-> [err |-> FALSE, reply |-> NoReply],
     res |-> Return("", "", <<>>, "", Nil), open |-> FALSE, prev |-> "none"]

RECURSIVE Count(_, _)
Count(steps, what) ==
    IF steps = <<>> THEN 0
    ELSE (IF steps[1] = what THEN 1 ELSE 0) + Count(Tail(steps), what)

\* The process has started and no Session exists yet.
Init ==
    /\ alive = TRUE
    /\ Conn = NoConn
    /\ calls = 0
    /\ execCount = 0
    /\ last = NoCall
    /\ hist = [locksOk |-> TRUE, allNil |-> TRUE]

\* NewSession: DialSSH either fails (log.Fatal) or yields the connection.
NewSession ==
    /\ alive
    /\ Conn = NoConn
    /\ \E dialOk \in BOOLEAN :
          /\ alive' = dialOk
          /\ Conn' = IF dialOk THEN [handle |-> 1, open |-> TRUE] ELSE NoConn
    /\ UNCHANGED <<calls, execCount, last, hist>>

\* An operation called on the session, with the outcome tr of its Exec call
\* and the result res it computed.  hist records whether every call so far
\* was a Lock or Unlock answered with ok=true, and whether every call so far
\* returned a nil error.
Finish(op, args, tr, res) ==
    /\ last' = [op |-> op, args |-> args, tr |-> tr, res |-> res,
                open |-> Conn.open, prev |-> last.op]
    /\ calls' = calls + 1
    /\ execCount' = execCount + Count(res.steps, "exec")
    /\ alive' = (res.status = "returned")
    /\ hist' = [locksOk |-> hist.locksOk /\ op \in {"Lock", "Unlock"}
                                /\ ~tr.err /\ tr.reply.Ok,
                allNil |-> hist.allNil /\ res.status = "returned" /\ res.err.isNil]
    /\ UNCHANGED Conn

CanCall == alive /\ Conn # NoConn /\ calls < MaxCalls

CallLock ==
    /\ CanCall
    /\ \E tr \in ExecOutcomes : Finish("Lock", NoArgs, tr, Lock(tr))

CallUnlock ==
    /\ CanCall
    /\ \E tr \in ExecOutcomes : Finish("Unlock", NoArgs, tr, Unlock(tr))

CallGetRollbackConfig ==
    /\ CanCall
    /\ \E number \in Numbers, tr \in ExecOutcomes :
          Finish("GetRollbackConfig", [NoArgs EXCEPT !.number = number], tr,
                 GetRollbackConfig(number, tr))

CallRollbackDiff ==
    /\ CanCall
    /\ \E compare \in Numbers, tr \in ExecOutcomes :
          Finish("RollbackDiff", [NoArgs EXCEPT !.number = compare], tr,
                 RollbackDiff(compare, tr))

CallGetRescueConfig ==
    /\ CanCall
    /\ \E tr \in ExecOutcomes :
          Finish("GetRescueConfig", NoArgs, tr, GetRescueConfig(tr))

CallCommand ==
    /\ CanCall
    /\ \E cmd \in Cmds, format \in Formats, tr \in ExecOutcomes :
          Finish("Command", [NoArgs EXCEPT !.cmd = cmd, !.format = format], tr,
                 Command(cmd, format, tr))

\* Close: s.Conn.Close(); the Session keeps the handle.
Close ==
    /\ alive
    /\ Conn # NoConn
    /\ Conn' = [Conn EXCEPT !.open = FALSE]
    /\ UNCHANGED <<alive, calls, execCount, last, hist>>

Next ==
    \/ NewSession
    \/ CallLock
    \/ CallUnlock
    \/ CallGetRollbackConfig
    \/ CallRollbackDiff
    \/ CallGetRescueConfig
    \/ CallCommand
    \/ Close

Spec == Init /\ [][Next]_vars

-----------------------------------------------------------------------------
TypeOK ==
    /\ alive \in BOOLEAN
    /\ calls \in 0..MaxCalls
    /\ last.tr \in ExecOutcomes
    /\ last.res.status \in {"returned", "fatal"}

-----------------------------------------------------------------------------
(* Vocabulary of the properties *)

StringOps == {"GetRollbackConfig", "RollbackDiff", "GetRescueConfig", "Command"}

AllOps == StringOps \cup {"Lock", "Unlock"}

Called == last.op \in AllOps

Returned == Called /\ last.res.status = "returned"

Reply == last.tr.reply

\* The reply is unsuccessful and carries at least one error descriptor.
DeviceError == ~last.tr.err /\ Reply.Ok = FALSE /\ Len(Reply.Errors) > 0

Decoded == Count(last.res.steps, "decode") > 0

\* The two result shapes: a non-empty string with a nil error, or the empty
\* string with the error of the first descriptor of an unsuccessful reply.
ValueShape == last.res.str # "" /\ last.res.err.isNil

ErrorShape ==
    /\ last.res.str = ""
    /\ DeviceError
    /\ last.res.err = NewError(Reply.Errors[1].Message)

ConfigOutput == "<configuration-information><configuration-output>"

ConfigOutputEnd == "</configuration-output></configuration-information>"

-----------------------------------------------------------------------------
\* C1 (as stated): every string-returning operation returns either a non-empty
\* string with a nil error or the empty string with the error of the first
\* descriptor of an unsuccessful reply; never the empty string with nil.
C1_TwoShapes ==
    (Returned /\ last.op \in StringOps) => (ValueShape \/ ErrorShape)

\* C1 (amended): GetRescueConfig and Command return one of the two shapes;
\* GetRollbackConfig and RollbackDiff return one of the two shapes or, when
\* the decoded configuration-output text is empty, the empty string with a
\* nil error.
C1_ShapesAmended ==
    /\ (Returned /\ last.op \in {"GetRescueConfig", "Command"})
          => (ValueShape \/ ErrorShape)
    /\ (Returned /\ last.op \in {"GetRollbackConfig", "RollbackDiff"})
          => \/ ValueShape
             \/ ErrorShape
             \/ /\ last.res.str = ""
                /\ last.res.err.isNil
                /\ ~DeviceError
                /\ Decoded
                /\ Reply.Data \in {ConfigDoc("rollback-information", "")}

C1_Witness ==
    /\ Returned
    /\ last.op = "RollbackDiff"
    /\ last.res.str = ""
    /\ last.res.err.isNil
    /\ Reply.Ok

\* C2: on ok=false with a non-empty error list every operation returns the
\* error of the first descriptor, with the empty string, without decoding.
C2_FirstError ==
    (Called /\ DeviceError) =>
        /\ last.res.status = "returned"
        /\ last.res.err = NewError(Reply.Errors[1].Message)
        /\ last.res.str = ""
        /\ ~Decoded

C2_Witness ==
    /\ last.op = "GetRescueConfig"
    /\ DeviceError
    /\ Len(Reply.Errors) = 2
    /\ last.res.err.msg = "A"
    /\ Reply.Errors[2].Message = "B"

\* C3: a transport error of the Exec call ends the process right after the
\* call: nothing is inspected or decoded and nothing is returned.
C3_TransportFatal ==
    (Called /\ last.tr.err) =>
        /\ last.res.status = "fatal"
        /\ last.res.steps = <<"exec">>
        /\ ~alive

C3_Witness == last.op = "GetRollbackConfig" /\ last.tr.err /\ ~alive

\* C4: GetRescueConfig, when the payload decodes, returns the fixed string
\* "No rescue configuration set." for an empty extracted text and the
\* extracted text itself otherwise, always with a nil error.
C4_RescueFallback ==
    (last.op = "GetRescueConfig" /\ Returned /\ Decoded) =>
        /\ last.res.err.isNil
        /\ last.res.str # ""
        /\ \A t \in {"", "system { }"} :
              Reply.Data = ConfigDoc("rescue-information", t) =>
                 last.res.str = IF t = "" THEN "No rescue configuration set." ELSE t
        /\ Reply.Data = <<Open("rescue-information"), End("rescue-information")>>
              => last.res.str = "No rescue configuration set."

C4_Witness ==
    /\ last.op = "GetRescueConfig"
    /\ Reply.Data = ConfigDoc("rescue-information", "")
    /\ last.res.str = "No rescue configuration set."
    /\ last.res.err.isNil

\* C5: Command sends the "command-xml" template exactly when format is
\* "xml", the "command" template for every other format, and always makes
\* its Exec call.
C5_FormatSwitch ==
    last.op = "Command" =>
        /\ (last.res.key = "command-xml") <=> (last.args.format = "xml")
        /\ last.args.format # "xml" => last.res.key = "command"
        /\ last.res.sent = Sprintf(rpcCommand[last.res.key], last.args.cmd)
        /\ Len(last.res.steps) >= 1
        /\ last.res.steps[1] = "exec"

C5_Witness ==
    /\ last.op = "Command"
    /\ last.args.format = "XML"
    /\ last.res.key = "command"
    /\ Returned

\* C6: Command, when the payload decodes, returns "No output available." for
\* an empty inner XML and the inner XML itself otherwise, with a nil error,
\* whatever the format.
C6_CommandFallback ==
    (last.op = "Command" /\ Returned /\ Decoded) =>
        /\ last.res.err.isNil
        /\ last.res.str # ""
        /\ Reply.Data = <<Open("output"), Text("Junos: 12.1"), End("output")>>
              => last.res.str = "Junos: 12.1"
        /\ Reply.Data = <<Open("rescue-information"), End("rescue-information")>>
              => last.res.str = "No output available."
        /\ Reply.Data = ConfigDoc("rollback-information", "no changes")
              => last.res.str = ConfigOutput \o "no changes" \o ConfigOutputEnd

C6_Witness ==
    /\ last.op = "Command"
    /\ last.args.format = "xml"
    /\ Reply.Data = <<Open("rescue-information"), End("rescue-information")>>
    /\ last.res.str = "No output available."

\* C7: as long as every call is a Lock or an Unlock answered with ok=true,
\* in any order, every call returns nil.
C7_LockUnlockOk == (calls > 0 /\ hist.locksOk) => (hist.allNil /\ alive)

C7_Witness ==
    /\ calls = 2
    /\ hist.locksOk
    /\ last.prev = "Lock"
    /\ last.op = "Unlock"
    /\ last.res.err.isNil

\* C8: every operation call makes exactly one Exec call, whatever its
\* outcome, and leaves the session's connection handle as it was.
C8_OneExec ==
    [][calls' # calls =>
          /\ calls' = calls + 1
          /\ execCount' = execCount + 1
          /\ Count(last'.res.steps, "exec") = 1
          /\ Conn' = Conn]_vars

C8_Witness ==
    /\ calls = 2
    /\ execCount = 2
    /\ last.res.status = "fatal"
    /\ Decoded

\* C9 (as stated): an operation called after Close fails with a NotConnected
\* error and makes no Exec call.
C9_NotConnected ==
    (Called /\ ~last.open) =>
        /\ last.res.status = "returned"
        /\ last.res.err = NewError("NotConnected")
        /\ Count(last.res.steps, "exec") = 0

\* C10: ok=false with an empty error list is handled as a success: Lock and
\* Unlock return nil, the other operations decode the payload and return its
\* text or their fallback string; an error is returned only for ok=false
\* with at least one descriptor.
C10_EmptyErrorList ==
    /\ (Called /\ ~last.tr.err /\ Reply.Ok = FALSE /\ Reply.Errors = <<>>) =>
          /\ last.op \in {"Lock", "Unlock"} => (Returned /\ last.res.err.isNil)
          /\ last.op \in StringOps => Decoded
          /\ Returned => last.res.err.isNil
          /\ (last.op \in {"GetRollbackConfig", "RollbackDiff"}
                /\ Reply.Data = ConfigDoc("rollback-information", "no changes"))
                => (Returned /\ last.res.str = "no changes")
          /\ (last.op = "GetRescueConfig"
                /\ Reply.Data = ConfigDoc("rescue-information", ""))
                => (Returned /\ last.res.str = "No rescue configuration set.")
          /\ (last.op = "Command"
                /\ Reply.Data = <<Open("output"), Text("Junos: 12.1"), End("output")>>)
                => (Returned /\ last.res.str = "Junos: 12.1")
    /\ (Returned /\ ~last.res.err.isNil) => DeviceError

C10_Witness ==
    /\ last.op = "GetRollbackConfig"
    /\ ~last.tr.err
    /\ Reply.Ok = FALSE
    /\ Reply.Errors = <<>>
    /\ last.res.str = "no changes"
    /\ last.res.err.isNil

====
